---- MODULE Spec2Model ----
(***************************************************************************)
(* HpcClusterManager (src/heartbeat_table.py): the heartbeat table, the    *)
(* reconciler tick (configure, timeout, drain/close phases), the closed    *)
(* callbacks and the head node the REST client talks to.                   *)
(*                                                                         *)
(* Names (fqdns, hostnames, node group names) are sequences of one-letter  *)
(* strings, so that upper(), split('.') and case-sensitive comparison are  *)
(* computed, not assumed.  Time is counted in units of three minutes.      *)
(***************************************************************************)
EXTENDS Integers, Sequences, FiniteSets, TLC

VARIABLES
    table,          \* _heart_beat_table: hostname -> SlaveInfo
    removed_nodes,  \* _removed_nodes
    idle_table,     \* _node_idle_check_table: hostname -> first idle observation
    callbacks,      \* _node_closed_callbacks
    table_lock,     \* _table_lock is held
    clock,          \* the wall clock
    heard,          \* history: the clock at the last add_slaveinfo / heartbeat call per hostname
    hn,             \* head node: hostname -> node status, or Absent
    mesos_group,    \* head node: the "Mesos" node group exists
    tick_pc,        \* where the reconciler stands
    to_close,       \* tick local: node_names_to_close
    closed_batch,   \* tick local: closed_nodes handed to the callbacks
    cb_idx,         \* tick local: index of the next callback to invoke
    close_result,   \* tick local: (closed_node_names, re_drain_node_names)
    hb,             \* the ingress thread inside on_slave_heartbeat
    rest_log,       \* history: REST calls issued by the current tick
    cb_log,         \* history: callback invocations of the current tick
    notified,       \* history: callbacks already invoked with a hostname since its add
    extra,          \* timers pending beside the one tick_pc = "idle" stands for
    entered,        \* ticks entered while another tick runs, not yet past their entry
    seen            \* history: what the last drain step saw and issued

vars == <<table, removed_nodes, idle_table, callbacks, table_lock, clock, heard, hn,
          mesos_group, tick_pc, to_close, closed_batch, cb_idx, close_result, hb,
          rest_log, cb_log, notified, extra, entered, seen>>

-----------------------------------------------------------------------------
(* Bounds *)

\* the clock of Spec, SpecCoop and SpecRace; the clock of SpecTime
MaxClock == 2
MaxTime == 5
MaxCallbacks == 2

\* the timer chains of SpecStart
MaxChains == 2

-----------------------------------------------------------------------------
(* Strings *)

UpperMap ==
    ("a" :> "A") @@ ("b" :> "B") @@ ("e" :> "E") @@ ("g" :> "G") @@ ("m" :> "M")
    @@ ("o" :> "O") @@ ("p" :> "P") @@ ("s" :> "S") @@ ("x" :> "X") @@ ("y" :> "Y")

LowerMap ==
    ("A" :> "a") @@ ("B" :> "b") @@ ("E" :> "e") @@ ("G" :> "g") @@ ("M" :> "m")
    @@ ("O" :> "o") @@ ("P" :> "p") @@ ("S" :> "s") @@ ("X" :> "x") @@ ("Y" :> "y")

\* str.upper()
Upper(s) == [i \in 1..Len(s) |-> IF s[i] \in DOMAIN UpperMap THEN UpperMap[s[i]] ELSE s[i]]

\* str.lower(), used by the head node when it reports a name in its own case
Lower(s) == [i \in 1..Len(s) |-> IF s[i] \in DOMAIN LowerMap THEN LowerMap[s[i]] ELSE s[i]]

\* _upper_strings
UpperStrings(strs) == [i \in 1..Len(strs) |-> Upper(strs[i])]

\* fqdn.split('.')[0]
GetHostnameFromFqdn(fqdn) ==
    LET dots == {i \in 1..Len(fqdn) : fqdn[i] = "."}
        first == IF dots = {} THEN Len(fqdn) + 1
                 ELSE CHOOSE i \in dots : \A j \in dots : i <= j
    IN  SubSeq(fqdn, 1, first - 1)

Range(s) == {s[i] : i \in 1..Len(s)}

\* a Python dict as a function; d[k] = v
Put(d, k, v) == [x \in (DOMAIN d) \cup {k} |-> IF x = k THEN v ELSE d[x]]

EmptyDict == [x \in {} |-> 0]

-----------------------------------------------------------------------------
(* Program constants *)

\* HpcState
Provisioning == "Provisioning"
Configuring == "Configuring"
Running == "Running"
Draining == "Draining"
Closing == "Closing"
Closed == "Closed"

HpcState == {Provisioning, Configuring, Running, Draining, Closing, Closed}

MESOS_NODE_GROUP_NAME == <<"M", "e", "s", "o", "s">>

\* timedelta(minutes=15), timedelta(minutes=3), 180.0 seconds, in units of 3 minutes
ProvisioningTimeout == 5
HeartbeatTimeout == 1
NODE_IDLE_TIMEOUT == 1

\* datetime.utcnow() of the default arguments, evaluated once when the class body is
\* executed: the process start, the origin of the clock
DefaultNow == 0

\* the node_group constructor argument, "" by default
DefaultNodeGroup == <<>>

-----------------------------------------------------------------------------
(* Inputs *)

\* the keys the table can hold, in the order a snapshot lists them
HostOrder == << <<"A">>, <<"B">> >>

HostKeys == Range(HostOrder)

AgentIds == {"a1"}
TaskIds == {"t1"}
Cpus == {8}

-----------------------------------------------------------------------------
(* NodeTable *)

SlaveInfo(hostname, fqdn, agent_id, task_id, cpus, last_heartbeat, state) ==
    [hostname |-> hostname, fqdn |-> fqdn, agent_id |-> agent_id, task_id |-> task_id,
     cpus |-> cpus, last_heartbeat |-> last_heartbeat, state |-> state]

\* the hostnames of a snapshot of the table whose state is st, in snapshot order
SnapshotNames(tbl, st) ==
    SelectSeq(HostOrder, LAMBDA k : k \in DOMAIN tbl /\ tbl[k].state = st)

CheckFqdnCollisionNoUpper(tbl, fqdn) ==
    LET hostname == GetHostnameFromFqdn(Upper(fqdn))
    IN  hostname \in DOMAIN tbl /\ tbl[hostname].fqdn # fqdn

\* check_fqdn_collision
CheckFqdnCollision(tbl, fqdn) ==
    LET u_fqdn == Upper(fqdn)
        hostname == GetHostnameFromFqdn(u_fqdn)
    IN  hostname \in DOMAIN tbl /\ tbl[hostname].fqdn # u_fqdn

AddSlaveinfoKeepsLive(tbl, fqdn, agent_id, task_id, cpus, last_heartbeat) ==
    LET u_fqdn == Upper(fqdn)
        hostname == GetHostnameFromFqdn(u_fqdn)
    IN  IF hostname \in DOMAIN tbl
           /\ (tbl[hostname].fqdn # u_fqdn \/ tbl[hostname].state # Closed)
        THEN tbl
        ELSE Put(tbl, hostname,
                 SlaveInfo(hostname, u_fqdn, agent_id, task_id, cpus, last_heartbeat, Provisioning))

\* add_slaveinfo: the table it leaves
AddSlaveinfo(tbl, fqdn, agent_id, task_id, cpus, last_heartbeat) ==
    LET u_fqdn == Upper(fqdn)
        hostname == GetHostnameFromFqdn(u_fqdn)
    IN  IF hostname \in DOMAIN tbl /\ tbl[hostname].fqdn # u_fqdn
        THEN tbl    \* duplicated hostname: logged, ignored
        ELSE Put(tbl, hostname,
                 SlaveInfo(hostname, u_fqdn, agent_id, task_id, cpus, last_heartbeat, Provisioning))

RECURSIVE SetNodeState(_, _, _)
\* _set_node_state: the table it leaves and the names it set, [table, setted]
SetNodeState(tbl, node_names, node_state) ==
    IF node_names = <<>> THEN [table |-> tbl, setted |-> <<>>]
    ELSE LET u_hostname == Upper(Head(node_names))
             changes == u_hostname \in DOMAIN tbl /\ tbl[u_hostname].state # node_state
             tbl1 == IF changes
                     THEN [tbl EXCEPT ![u_hostname].state = node_state]
                     ELSE tbl
             rest == SetNodeState(tbl1, Tail(node_names), node_state)
         IN  [table |-> rest.table,
              setted |-> IF changes THEN <<u_hostname>> \o rest.setted ELSE rest.setted]

CheckTimeoutStrict(tbl, now) ==
    [provision_timeout |->
        SelectSeq(HostOrder, LAMBDA k : k \in DOMAIN tbl /\ tbl[k].state = Provisioning
                                        /\ now - tbl[k].last_heartbeat > ProvisioningTimeout),
     heartbeat_timeout |->
        SelectSeq(HostOrder, LAMBDA k : k \in DOMAIN tbl /\ tbl[k].state = Running
                                        /\ now - tbl[k].last_heartbeat > HeartbeatTimeout),
     running |->
        SelectSeq(HostOrder, LAMBDA k : k \in DOMAIN tbl /\ tbl[k].state = Running
                                        /\ ~(now - tbl[k].last_heartbeat > HeartbeatTimeout))]

\* check_timeout: (provision_timeout_list, heartbeat_timeout_list, running_list), as hostnames
CheckTimeout(tbl, now) ==
    [provision_timeout |->
        SelectSeq(HostOrder, LAMBDA k : k \in DOMAIN tbl /\ tbl[k].state = Provisioning
                                        /\ now - tbl[k].last_heartbeat >= ProvisioningTimeout),
     heartbeat_timeout |->
        SelectSeq(HostOrder, LAMBDA k : k \in DOMAIN tbl /\ tbl[k].state = Running
                                        /\ now - tbl[k].last_heartbeat >= HeartbeatTimeout),
     running |->
        SelectSeq(HostOrder, LAMBDA k : k \in DOMAIN tbl /\ tbl[k].state = Running
                                        /\ ~(now - tbl[k].last_heartbeat >= HeartbeatTimeout))]

RECURSIVE IdleLoop(_, _, _, _, _)
\* the loop of _check_node_idle_timeout: [new, removed]
IdleLoop(u_names, old, new, removed, now) ==
    IF u_names = <<>> THEN [new |-> new, removed |-> removed]
    ELSE LET u == Head(u_names)
         IN  IF u \in DOMAIN old
             THEN IF u \in removed
                  THEN IdleLoop(Tail(u_names), old, Put(new, u, now), removed \ {u}, now)
                  ELSE IdleLoop(Tail(u_names), old, Put(new, u, old[u]), removed, now)
             ELSE IdleLoop(Tail(u_names), old, Put(new, u, now), removed, now)

\* the iteration order of _node_idle_check_table
IdleOrder == HostOrder

\* _check_node_idle_timeout: [idle_table, removed, timed_out]
CheckNodeIdleTimeout(node_names, idle_tbl, removed, now) ==
    LET r == IdleLoop(UpperStrings(node_names), idle_tbl, EmptyDict, removed, now)
    IN  [idle_table |-> r.new,
         removed |-> r.removed,
         timed_out |-> SelectSeq(IdleOrder, LAMBDA k : k \in DOMAIN r.new
                                            /\ (now - r.new[k]) > NODE_IDLE_TIMEOUT)]

SetNodesForgets(tbl, removed, node_names, node_state, one_shot) ==
    LET r == SetNodeState(tbl, IF one_shot THEN <<>> ELSE node_names, node_state)
    IN  [table |-> r.table, setted |-> r.setted, removed |-> removed]

\* _set_nodes_draining / _set_nodes_closing / _set_nodes_closed up to the callbacks /
\* _set_nodes_running. one_shot: node_names is a generator, which removed.update()
\* has exhausted when _set_node_state iterates it.
SetNodes(tbl, removed, node_names, node_state, one_shot) ==
    LET r == SetNodeState(tbl, IF one_shot THEN <<>> ELSE node_names, node_state)
    IN  [table |-> r.table,
         setted |-> r.setted,
         removed |-> IF node_state = Running THEN removed
                     ELSE removed \cup Range(UpperStrings(node_names))]

-----------------------------------------------------------------------------
(* The head node behind HpcRestClient *)

\* the head node has no node of that name
Absent == [state |-> "Absent", health |-> "Absent", groups |-> {}]
Online == "Online"
Offline == "Offline"
Unknown == "Unknown"
Unapproved == "Unapproved"
OK == "OK"

NodeStates == {Online, Offline, Unknown}
NodeHealths == {Unapproved, OK}

HnStatuses == [state : NodeStates, health : NodeHealths, groups : SUBSET {MESOS_NODE_GROUP_NAME}]

\* get_node_status_exact: one status per asked name the head node knows, under the
\* name as the head node spells it
GetNodeStatusExact(hnst, names, lower) ==
    LET known == SelectSeq(names, LAMBDA n : Upper(n) \in DOMAIN hnst /\ hnst[Upper(n)] # Absent)
    IN  [i \in 1..Len(known) |->
            [NodeName |-> IF lower THEN Lower(Upper(known[i])) ELSE Upper(known[i]),
             NodeState |-> hnst[Upper(known[i])].state,
             NodeHealth |-> hnst[Upper(known[i])].health,
             NodeGroup |-> hnst[Upper(known[i])].groups]]

\* what one state-changing REST call does to one node of the head node
HnNodeAfter(st, call) ==
    IF st = Absent THEN st
    ELSE CASE call.op = "assign_default_compute_node_template" ->
                IF st.health = Unapproved THEN [st EXCEPT !.health = OK, !.state = Offline] ELSE st
           [] call.op = "take_nodes_offline" ->
                IF st.state = Online THEN [st EXCEPT !.state = Offline] ELSE st
           [] call.op = "bring_nodes_online" ->
                IF st.state = Offline THEN [st EXCEPT !.state = Online] ELSE st
           [] call.op = "add_node_to_node_group" ->
                [st EXCEPT !.groups = @ \cup {call.group}]
           [] call.op = "remove_nodes" -> Absent
           [] OTHER -> st

HnAfter(hnst, call) ==
    [k \in DOMAIN hnst |->
        IF k \in Range(UpperStrings(call.names)) THEN HnNodeAfter(hnst[k], call) ELSE hnst[k]]

RECURSIVE HnAfterCalls(_, _)
HnAfterCalls(hnst, calls) ==
    IF calls = <<>> THEN hnst ELSE HnAfterCalls(HnAfter(hnst, Head(calls)), Tail(calls))

RestCall(op, group, names) == [op |-> op, group |-> group, names |-> names]

\* The calls of a try block, of which call number fail raises (0: none does): the
\* calls that took effect, and the log of the calls issued.
Issued(calls, fail) ==
    IF fail = 0 \/ fail > Len(calls) THEN calls ELSE SubSeq(calls, 1, fail)

Effective(calls, fail) ==
    IF fail = 0 \/ fail > Len(calls) THEN calls ELSE SubSeq(calls, 1, fail - 1)

\* which call of a try block raises: any of them or none, or none when the head node
\* answers every call
FailChoices(calls, faults) == IF faults THEN 0..Len(calls) ELSE {0}

LogOf(calls, fail) ==
    [i \in 1..Len(Issued(calls, fail)) |->
        [op |-> calls[i].op, group |-> calls[i].group, names |-> calls[i].names,
         ok |-> (i # fail)]]

-----------------------------------------------------------------------------
(* ConfigureMachine *)

\* _node_group_specified
NodeGroupSpecified(node_group) == node_group # <<>>

\* _check_node_health_unapproved
CheckNodeHealthUnapproved(node_status) == node_status.NodeHealth = Unapproved

\* _check_node_in_mesos_group: true when the node is NOT in the Mesos group
CheckNodeInMesosGroup(node_status) ==
    Upper(MESOS_NODE_GROUP_NAME) \notin {Upper(g) : g \in node_status.NodeGroup}

CheckNodeInSpecifiedGroupExact(node_status, node_group) ==
    node_group \notin node_status.NodeGroup

\* _check_node_in_specified_group: true when the node is NOT in the specified group
CheckNodeInSpecifiedGroup(node_status, node_group) ==
    Upper(node_group) \notin {Upper(g) : g \in node_status.NodeGroup}

\* _check_node_state_offline, _check_node_state_online
CheckNodeStateOffline(node_status) == node_status.NodeState = Offline

CheckNodeStateOnline(node_status) == node_status.NodeState = Online

ConfigureBucketGroupFirst(node_status, node_group) ==
    IF CheckNodeHealthUnapproved(node_status) THEN "unapproved"
    ELSE IF CheckNodeStateOffline(node_status) THEN "bring_online"
    ELSE IF CheckNodeStateOnline(node_status) THEN "configured"
    ELSE "invalid"

\* the if/elif chain of _configure_compute_nodes_state_machine for one status
ConfigureBucket(node_status, node_group) ==
    IF CheckNodeHealthUnapproved(node_status) THEN "unapproved"
    ELSE IF CheckNodeInMesosGroup(node_status)
            \/ (NodeGroupSpecified(node_group) /\ CheckNodeInSpecifiedGroup(node_status, node_group))
         THEN IF CheckNodeStateOnline(node_status) THEN "take_offline"
              ELSE IF CheckNodeStateOffline(node_status) THEN "change_node_group"
              ELSE "invalid"
    ELSE IF CheckNodeStateOffline(node_status) THEN "bring_online"
    ELSE IF CheckNodeStateOnline(node_status) THEN "configured"
    ELSE "invalid"

BucketNames(node_status_list, node_group, bucket) ==
    LET sel == SelectSeq(node_status_list, LAMBDA st : ConfigureBucket(st, node_group) = bucket)
    IN  [i \in 1..Len(sel) |-> sel[i].NodeName]

\* the REST calls of the try block of _configure_compute_nodes_state_machine, in order
ConfigureCalls(node_status_list, node_group) ==
    LET unapproved == BucketNames(node_status_list, node_group, "unapproved")
        take_offline == BucketNames(node_status_list, node_group, "take_offline")
        bring_online == BucketNames(node_status_list, node_group, "bring_online")
        change_group == BucketNames(node_status_list, node_group, "change_node_group")
    IN  (IF unapproved # <<>>
         THEN <<RestCall("assign_default_compute_node_template", <<>>, unapproved)>> ELSE <<>>)
        \o (IF take_offline # <<>>
            THEN <<RestCall("take_nodes_offline", <<>>, take_offline)>> ELSE <<>>)
        \o (IF bring_online # <<>>
            THEN <<RestCall("bring_nodes_online", <<>>, bring_online)>> ELSE <<>>)
        \o (IF change_group # <<>>
            THEN <<RestCall("add_node_to_node_group", MESOS_NODE_GROUP_NAME, change_group)>>
                 \o (IF NodeGroupSpecified(node_group)
                     THEN <<RestCall("add_node_to_node_group", node_group, change_group)>>
                     ELSE <<>>)
            ELSE <<>>)

\* _configure_compute_nodes_state_machine, after the group checks:
\* [configured, calls]; target_missing: the specified node group is not on the head node
ConfigureComputeNodesStateMachine(node_status_list, node_group, target_missing) ==
    IF NodeGroupSpecified(node_group) /\ target_missing
    THEN [configured |-> <<>>, calls |-> <<>>]
    ELSE [configured |-> BucketNames(node_status_list, node_group, "configured"),
          calls |-> ConfigureCalls(node_status_list, node_group)]

-----------------------------------------------------------------------------
(* DrainCloseMachine *)

DrainNodesStateMachineSilent(node_status_list) ==
    LET offline == SelectSeq(node_status_list,
                             LAMBDA st : ~CheckNodeStateOnline(st) /\ CheckNodeStateOffline(st))
    IN  [drained |-> [i \in 1..Len(offline) |-> offline[i].NodeName], calls |-> <<>>]

\* _drain_nodes_state_machine: [drained, calls]
DrainNodesStateMachine(node_status_list) ==
    LET online == SelectSeq(node_status_list, CheckNodeStateOnline)
        offline == SelectSeq(node_status_list,
                             LAMBDA st : ~CheckNodeStateOnline(st) /\ CheckNodeStateOffline(st))
        take_offline == [i \in 1..Len(online) |-> online[i].NodeName]
    IN  [drained |-> [i \in 1..Len(offline) |-> offline[i].NodeName],
         calls |-> IF take_offline # <<>>
                   THEN <<RestCall("take_nodes_offline", <<>>, take_offline)>> ELSE <<>>]

CloseNodeStateMachineReportsRemoved(node_names, node_status_list) ==
    LET gone == SelectSeq(node_status_list, CheckNodeHealthUnapproved)
        back == SelectSeq(node_status_list,
                          LAMBDA st : ~CheckNodeHealthUnapproved(st) /\ ~CheckNodeStateOffline(st))
        re_drain == [i \in 1..Len(back) |-> back[i].NodeName]
        missing == SelectSeq(node_names, LAMBDA name : name \notin Range(re_drain))
    IN  [closed |-> [i \in 1..Len(gone) |-> gone[i].NodeName] \o missing,
         re_drain |-> re_drain,
         calls |-> <<>>]

\* _close_node_state_machine: [closed, re_drain, calls]
CloseNodeStateMachine(node_names, node_status_list) ==
    LET gone == SelectSeq(node_status_list, CheckNodeHealthUnapproved)
        back == SelectSeq(node_status_list,
                          LAMBDA st : ~CheckNodeHealthUnapproved(st) /\ ~CheckNodeStateOffline(st))
        off == SelectSeq(node_status_list,
                         LAMBDA st : ~CheckNodeHealthUnapproved(st) /\ CheckNodeStateOffline(st))
        re_drain == [i \in 1..Len(back) |-> back[i].NodeName]
        to_remove == [i \in 1..Len(off) |-> off[i].NodeName]
        missing == SelectSeq(node_names, LAMBDA name : name \notin Range(re_drain \o to_remove))
    IN  [closed |-> [i \in 1..Len(gone) |-> gone[i].NodeName] \o missing,
         re_drain |-> re_drain,
         calls |-> IF to_remove # <<>>
                   THEN <<RestCall("remove_nodes", <<>>, to_remove)>> ELSE <<>>]

-----------------------------------------------------------------------------
(* Initial state: a constructed HpcClusterManager, start() not yet called *)

NoRecord == SlaveInfo(<<>>, <<>>, "", "", 0, 0, "Unknown")

HbIdle == [pc |-> "idle", host |-> <<>>, now |-> 0, rec |-> NoRecord]

NoCloseResult == [closed |-> <<>>, re_drain |-> <<>>]

\* no drain step has run yet
NothingSeen ==
    [valid |-> FALSE, quiet |-> FALSE, repeat |-> FALSE, table |-> EmptyDict,
     hn |-> [k \in HostKeys |-> Absent], calls |-> <<>>, before |-> <<>>]

Init ==
    /\ table = EmptyDict
    /\ removed_nodes = {}
    /\ idle_table = EmptyDict
    /\ callbacks = <<>>
    /\ table_lock = FALSE
    /\ clock = 0
    /\ heard = [k \in HostKeys |-> 0]
    /\ hn = [k \in HostKeys |-> Absent]
    /\ mesos_group = FALSE
    /\ tick_pc = "unstarted"
    /\ to_close = <<>>
    /\ closed_batch = <<>>
    /\ cb_idx = 0
    /\ close_result = NoCloseResult
    /\ hb = HbIdle
    /\ rest_log = <<>>
    /\ cb_log = <<>>
    /\ notified = [k \in HostKeys |-> {}]
    /\ extra = 0
    /\ entered = 0
    /\ seen = NothingSeen

tableVars == <<table, removed_nodes, idle_table>>
tickLocals == <<to_close, closed_batch, cb_idx, close_result>>
headNode == <<hn, mesos_group>>
tickLogs == <<rest_log, cb_log>>
schedVars == <<extra, entered>>

-----------------------------------------------------------------------------
(* Ingress: the framework scheduler's thread.  The history variable heard is left *)
(* to the specification: Heard(k) records a call, NotHeard leaves it.             *)

\* the value of a timestamp argument
TimeOf(ts) == IF ts = "default" THEN DefaultNow ELSE clock

Heard(hostname) ==
    heard' = IF Upper(hostname) \in DOMAIN table'
             THEN [heard EXCEPT ![Upper(hostname)] = clock] ELSE heard

NotHeard == UNCHANGED heard

\* an add_slaveinfo or heartbeat call has come in since the last drain step
Disturbed == [seen EXCEPT !.quiet = FALSE]

\* subscribe_node_closed_callback
SubscribeNodeClosedCallback ==
    /\ Len(callbacks) < MaxCallbacks
    /\ callbacks' = Append(callbacks, Len(callbacks) + 1)
    /\ UNCHANGED <<tableVars, table_lock, clock, heard, headNode, tick_pc, tickLocals, hb,
                   tickLogs, notified, schedVars, seen>>

\* add_slaveinfo(fqdn, agent_id, task_id, cpus[, last_heartbeat])
AddNode(fqdn, agent_id, task_id, cpus, ts) ==
    LET hostname == GetHostnameFromFqdn(Upper(fqdn))
    IN  /\ hb.pc = "idle"
        /\ table' = AddSlaveinfo(table, fqdn, agent_id, task_id, cpus, TimeOf(ts))
        /\ notified' = IF CheckFqdnCollision(table, fqdn) THEN notified
                       ELSE [notified EXCEPT ![hostname] = {}]
        /\ seen' = Disturbed
        /\ UNCHANGED <<removed_nodes, idle_table, callbacks, schedVars, table_lock, clock, headNode,
                       tick_pc, tickLocals, hb, tickLogs>>

\* line 67: the record with the new last_heartbeat
Stamped(rec, now) == [rec EXCEPT !.last_heartbeat = now]

\* lines 72-73: the record as Configuring
Configured(rec) == [rec EXCEPT !.state = Configuring]

\* on_slave_heartbeat(hostname[, now]) with no other thread in between
OnSlaveHeartbeat(hostname, ts) ==
    LET u_hostname == Upper(hostname)
        r == Stamped(table[u_hostname], TimeOf(ts))
    IN  /\ hb.pc = "idle"
        /\ table' = IF u_hostname \in DOMAIN table
                    THEN [table EXCEPT ![u_hostname] =
                            IF r.state = Provisioning THEN Configured(r) ELSE r]
                    ELSE table    \* not recognized: logged, ignored
        /\ seen' = Disturbed
        /\ UNCHANGED <<removed_nodes, idle_table, callbacks, schedVars, table_lock, clock, headNode,
                       tick_pc, tickLocals, hb, tickLogs, notified>>

\* on_slave_heartbeat step by step. Lines 65-67: the lookup and the read of the record
HbCall(hostname, ts) ==
    LET u_hostname == Upper(hostname)
    IN  /\ hb.pc = "idle"
        /\ hb' = IF u_hostname \in DOMAIN table
                 THEN [pc |-> "stamp", host |-> u_hostname, now |-> TimeOf(ts),
                       rec |-> table[u_hostname]]
                 ELSE hb    \* not recognized: logged, ignored
        /\ seen' = Disturbed
        /\ UNCHANGED <<tableVars, callbacks, schedVars, table_lock, clock, headNode, tick_pc,
                       tickLocals, tickLogs, notified>>

\* lines 67-69: the write of the record with the new last_heartbeat, and the first
\* test of the state
HbStamp ==
    /\ hb.pc = "stamp"
    /\ table' = [table EXCEPT ![hb.host] = Stamped(hb.rec, hb.now)]
    /\ hb' = IF hb.rec.state = Provisioning
             THEN [hb EXCEPT !.pc = "lock", !.rec = NoRecord]
             ELSE HbIdle
    /\ UNCHANGED <<removed_nodes, idle_table, callbacks, schedVars, seen, table_lock, clock, heard, headNode,
                   tick_pc, tickLocals, tickLogs, notified>>

\* lines 70-72: the lock is taken, the state tested again and the record read
HbRecheck ==
    /\ hb.pc = "lock"
    /\ ~table_lock
    /\ IF table[hb.host].state = Provisioning
       THEN /\ hb' = [hb EXCEPT !.pc = "configure", !.rec = table[hb.host]]
            /\ table_lock' = TRUE
       ELSE /\ hb' = HbIdle
            /\ table_lock' = FALSE
    /\ UNCHANGED <<tableVars, callbacks, schedVars, seen, clock, heard, headNode, tick_pc, tickLocals,
                   tickLogs, notified>>

\* lines 72-73: the write of the record as Configuring; the lock is released
HbConfigure ==
    /\ hb.pc = "configure"
    /\ table' = [table EXCEPT ![hb.host] = Configured(hb.rec)]
    /\ table_lock' = FALSE
    /\ hb' = HbIdle
    /\ UNCHANGED <<removed_nodes, idle_table, callbacks, schedVars, seen, clock, heard, headNode, tick_pc,
                   tickLocals, tickLogs, notified>>

-----------------------------------------------------------------------------
(* Environment: time passes; the head node changes by itself *)

Advance(limit) ==
    /\ clock < limit
    /\ clock' = clock + 1
    /\ UNCHANGED <<tableVars, callbacks, schedVars, seen, table_lock, heard, headNode, tick_pc, tickLocals,
                   hb, tickLogs, notified>>

\* a node registers with the head node, is changed by an administrator, fails, is removed
HnDrift(k, st) ==
    /\ hn[k] # st
    /\ hn' = [hn EXCEPT ![k] = st]
    /\ UNCHANGED <<tableVars, callbacks, schedVars, seen, table_lock, clock, heard, mesos_group, tick_pc,
                   tickLocals, hb, tickLogs, notified>>

-----------------------------------------------------------------------------
(* Reconciler: start_configure_cluster_timer, one phase per action.  An exception *)
(* that no try block catches leaves the tick before the timer is set again.       *)

Dies ==
    /\ tick_pc' = "dead"
    /\ to_close' = <<>>
    /\ closed_batch' = <<>>
    /\ cb_idx' = 0
    /\ close_result' = NoCloseResult

AddGroupLog(ok) ==
    <<[op |-> "add_node_group", group |-> MESOS_NODE_GROUP_NAME, names |-> <<>>, ok |-> ok]>>

\* _configure_compute_nodes. pre_fail: the call outside the try block that raises
ConfigureComputeNodes(pre_fail, lower, faults) ==
    LET configuring_node_names == SnapshotNames(table, Configuring)
        node_status_list == GetNodeStatusExact(hn, configuring_node_names, lower)
        m == ConfigureComputeNodesStateMachine(node_status_list, DefaultNodeGroup, FALSE)
    IN  /\ cb_log' = <<>>
        /\ UNCHANGED <<removed_nodes, idle_table, callbacks, seen, table_lock, clock, heard, hb,
                       notified>>
        /\ IF configuring_node_names = <<>>
           THEN /\ tick_pc' = "timeout"
                /\ rest_log' = <<>>
                /\ UNCHANGED <<table, headNode, tickLocals>>
           ELSE IF pre_fail = "list_node_groups"
           THEN /\ Dies
                /\ rest_log' = <<>>
                /\ UNCHANGED <<table, headNode>>
           ELSE IF ~mesos_group /\ pre_fail = "add_node_group"
           THEN /\ Dies
                /\ rest_log' = AddGroupLog(FALSE)
                /\ UNCHANGED <<table, headNode>>
           ELSE IF pre_fail = "get_node_status_exact"
           THEN /\ Dies
                /\ rest_log' = (IF mesos_group THEN <<>> ELSE AddGroupLog(TRUE))
                /\ mesos_group' = TRUE
                /\ UNCHANGED <<table, hn>>
           ELSE \E fail \in FailChoices(m.calls, faults) :
                /\ rest_log' = (IF mesos_group THEN <<>> ELSE AddGroupLog(TRUE))
                                \o LogOf(m.calls, fail)
                /\ mesos_group' = TRUE
                /\ hn' = HnAfterCalls(hn, Effective(m.calls, fail))
                /\ table' = IF m.configured # <<>>
                            THEN SetNodes(table, removed_nodes, m.configured, Running, FALSE).table
                            ELSE table
                /\ tick_pc' = "timeout"
                /\ UNCHANGED tickLocals

\* the call before the try block that raises, if the head node fails calls at all
PreFails(faults) ==
    IF faults THEN {"none", "list_node_groups", "add_node_group", "get_node_status_exact"}
    ELSE {"none"}

Raises(faults) == IF faults THEN BOOLEAN ELSE {FALSE}

\* start(): the first tick runs in the caller.  faults: REST calls and callbacks may
\* raise; lowers: the cases in which the head node spells names
Start(faults, lowers) ==
    /\ tick_pc = "unstarted"
    /\ UNCHANGED schedVars
    /\ \E pre_fail \in PreFails(faults), lower \in lowers :
          ConfigureComputeNodes(pre_fail, lower, faults)

\* the timer fires: the next tick
TimerTick(faults, lowers) ==
    /\ tick_pc = "idle"
    /\ UNCHANGED schedVars
    /\ \E pre_fail \in PreFails(faults), lower \in lowers :
          ConfigureComputeNodes(pre_fail, lower, faults)

\* the phases of a tick under way
TickPhases == {"timeout", "drain", "close", "callbacks", "redrain"}

\* the ticks executing, and the timers pending
Executing == (IF tick_pc \in TickPhases THEN 1 ELSE 0) + entered

Timers == (IF tick_pc = "idle" THEN 1 ELSE 0) + extra

\* start() is called again. With no tick under way its tick runs at once, and the
\* timer the last tick set stays pending; with a tick under way the call has entered
\* start_configure_cluster_timer beside it.
StartAgain(faults, lowers) ==
    /\ tick_pc # "unstarted"
    /\ Timers + Executing < MaxChains
    /\ IF tick_pc \in TickPhases
       THEN /\ entered' = entered + 1
            /\ UNCHANGED <<tableVars, callbacks, table_lock, clock, heard, headNode, tick_pc,
                           tickLocals, hb, tickLogs, notified, extra, seen>>
       ELSE /\ extra' = extra + (IF tick_pc = "idle" THEN 1 ELSE 0)
            /\ UNCHANGED entered
            /\ \E pre_fail \in PreFails(faults), lower \in lowers :
                  ConfigureComputeNodes(pre_fail, lower, faults)

\* a timer beside the one of the last tick fires: its thread enters
\* start_configure_cluster_timer
ExtraTimerFires ==
    /\ extra > 0
    /\ extra' = extra - 1
    /\ entered' = entered + 1
    /\ UNCHANGED <<tableVars, callbacks, table_lock, clock, heard, headNode, tick_pc,
                   tickLocals, hb, tickLogs, notified, seen>>

\* a tick that was entered beside another goes on once that one is over
EnteredTickRuns(faults, lowers) ==
    /\ entered > 0
    /\ tick_pc \in {"idle", "dead"}
    /\ entered' = entered - 1
    /\ extra' = extra + (IF tick_pc = "idle" THEN 1 ELSE 0)
    /\ \E pre_fail \in PreFails(faults), lower \in lowers :
          ConfigureComputeNodes(pre_fail, lower, faults)

\* the idle nodes check_nodes_idle may report among the asked names
IdleAnswers(names, lower) ==
    {SelectSeq([i \in 1..Len(names) |-> IF lower THEN Lower(names[i]) ELSE names[i]],
               LAMBDA n : Upper(n) \in S) : S \in SUBSET Range(names)}

\* _check_runaway_and_idle_compute_nodes. check_timeout() is called without now: its
\* default argument. The timeout lists are handed on as generators.
CheckRunawayAndIdleComputeNodes(idle_fails, lower) ==
    LET t == CheckTimeout(table, DefaultNow)
        d1 == IF t.provision_timeout # <<>>
              THEN SetNodes(table, removed_nodes, t.provision_timeout, Draining, TRUE)
              ELSE [table |-> table, removed |-> removed_nodes]
        d2 == IF t.heartbeat_timeout # <<>>
              THEN SetNodes(d1.table, d1.removed, t.heartbeat_timeout, Draining, TRUE)
              ELSE d1
    IN  /\ tick_pc = "timeout"
        /\ UNCHANGED <<callbacks, schedVars, seen, table_lock, clock, heard, headNode, hb, tickLogs, notified>>
        /\ IF t.running = <<>>
           THEN /\ table' = d2.table
                /\ removed_nodes' = d2.removed
                /\ tick_pc' = "drain"
                /\ UNCHANGED <<idle_table, tickLocals>>
           ELSE IF idle_fails
           THEN /\ table' = d2.table
                /\ removed_nodes' = d2.removed
                /\ Dies
                /\ UNCHANGED idle_table
           ELSE \E idle_nodes \in IdleAnswers(t.running, lower) :
                LET i == CheckNodeIdleTimeout(idle_nodes, idle_table, d2.removed, clock)
                    d3 == SetNodes(d2.table, i.removed, i.timed_out, Draining, FALSE)
                IN  /\ idle_table' = i.idle_table
                    /\ table' = d3.table
                    /\ removed_nodes' = d3.removed
                    /\ tick_pc' = "drain"
                    /\ UNCHANGED tickLocals

TimeoutPhase(faults, lowers) ==
    \E idle_fails \in Raises(faults), lower \in lowers :
        CheckRunawayAndIdleComputeNodes(idle_fails, lower)

\* _drain_and_stop_nodes, lines 303-316: the snapshot and the drain step
DrainStep(status_fails, lower, faults) ==
    LET node_names_to_drain == SnapshotNames(table, Draining)
        node_names_to_close == SnapshotNames(table, Closing)
        m == DrainNodesStateMachine(GetNodeStatusExact(hn, node_names_to_drain, lower))
    IN  /\ tick_pc = "drain"
        /\ UNCHANGED <<idle_table, callbacks, schedVars, table_lock, clock, heard, mesos_group, hb,
                       cb_log, notified, closed_batch, cb_idx, close_result>>
        /\ IF node_names_to_drain = <<>>
           THEN /\ to_close' = node_names_to_close
                /\ tick_pc' = "close"
                /\ UNCHANGED <<table, removed_nodes, hn, rest_log>>
           ELSE IF status_fails
           THEN /\ Dies
                /\ UNCHANGED <<table, removed_nodes, hn, rest_log>>
           ELSE \E fail \in FailChoices(m.calls, faults) :
                LET d == IF m.drained # <<>>
                         THEN SetNodes(table, removed_nodes, m.drained, Closing, FALSE)
                         ELSE [table |-> table, removed |-> removed_nodes]
                IN  /\ hn' = HnAfterCalls(hn, Effective(m.calls, fail))
                    /\ rest_log' = rest_log \o LogOf(m.calls, fail)
                    /\ table' = d.table
                    /\ removed_nodes' = d.removed
                    /\ to_close' = node_names_to_close \o m.drained
                    /\ tick_pc' = "close"

DrainPhase(faults, lowers) ==
    /\ UNCHANGED seen
    /\ \E status_fails \in Raises(faults), lower \in lowers : DrainStep(status_fails, lower, faults)

\* the calls of a log, without their outcome
CallsOf(log) == [i \in 1..Len(log) |-> RestCall(log[i].op, log[i].group, log[i].names)]

\* the drain step, with what it saw and issued recorded in seen
DrainPhaseSeen(faults, lowers) ==
    /\ \E status_fails \in Raises(faults), lower \in lowers : DrainStep(status_fails, lower, faults)
    /\ seen' = IF tick_pc' = "close"
               THEN [valid |-> TRUE, quiet |-> TRUE,
                     repeat |-> seen.valid /\ seen.quiet /\ seen.table = table /\ seen.hn = hn,
                     table |-> table, hn |-> hn,
                     calls |-> SubSeq(rest_log', Len(rest_log) + 1, Len(rest_log')),
                     before |-> seen.calls]
               ELSE NothingSeen

\* the tick ends: the timer is set again (lines 257-259)
TickEnds ==
    /\ tick_pc' = "idle"
    /\ to_close' = <<>>
    /\ closed_batch' = <<>>
    /\ cb_idx' = 0
    /\ close_result' = NoCloseResult

\* _drain_and_stop_nodes, lines 318-322, and _set_nodes_closed up to the callbacks
CloseStep(status_fails, lower, faults) ==
    LET m == CloseNodeStateMachine(to_close, GetNodeStatusExact(hn, to_close, lower))
        c == SetNodes(table, removed_nodes, m.closed, Closed, FALSE)
    IN  /\ tick_pc = "close"
        /\ UNCHANGED <<idle_table, callbacks, schedVars, seen, table_lock, clock, heard, mesos_group, hb,
                       cb_log, notified>>
        /\ IF to_close = <<>>
           THEN /\ TickEnds
                /\ UNCHANGED <<table, removed_nodes, hn, rest_log>>
           ELSE IF status_fails
           THEN /\ Dies
                /\ UNCHANGED <<table, removed_nodes, hn, rest_log>>
           ELSE \E fail \in FailChoices(m.calls, faults) :
                /\ hn' = HnAfterCalls(hn, Effective(m.calls, fail))
                /\ rest_log' = rest_log \o LogOf(m.calls, fail)
                /\ close_result' = [closed |-> m.closed, re_drain |-> m.re_drain]
                /\ to_close' = <<>>
                /\ IF m.closed # <<>>
                   THEN /\ table' = c.table
                        /\ removed_nodes' = c.removed
                        /\ closed_batch' = c.setted
                        /\ IF callbacks # <<>>
                           THEN tick_pc' = "callbacks" /\ cb_idx' = 1
                           ELSE tick_pc' = "redrain" /\ cb_idx' = 0
                   ELSE /\ tick_pc' = "redrain"
                        /\ UNCHANGED <<table, removed_nodes, closed_batch, cb_idx>>

ClosePhase(faults, lowers) ==
    \E status_fails \in Raises(faults), lower \in lowers : CloseStep(status_fails, lower, faults)

\* _set_nodes_closed, lines 279-280: one callback is called with closed_nodes
CallbackStep(raises) ==
    /\ tick_pc = "callbacks"
    /\ cb_log' = Append(cb_log, [cb |-> callbacks[cb_idx], names |-> closed_batch,
                                 states |-> [i \in 1..Len(closed_batch) |->
                                                table[closed_batch[i]].state]])
    /\ notified' = [k \in HostKeys |->
                        IF k \in Range(closed_batch)
                        THEN notified[k] \cup {callbacks[cb_idx]} ELSE notified[k]]
    /\ IF raises
       THEN Dies
       ELSE IF cb_idx < Len(callbacks)
       THEN /\ cb_idx' = cb_idx + 1
            /\ UNCHANGED <<tick_pc, to_close, closed_batch, close_result>>
       ELSE /\ tick_pc' = "redrain"
            /\ cb_idx' = 0
            /\ UNCHANGED <<to_close, closed_batch, close_result>>
    /\ UNCHANGED <<tableVars, callbacks, schedVars, seen, table_lock, clock, heard, headNode, hb, rest_log>>

CallbackPhase(faults) == \E raises \in Raises(faults) : CallbackStep(raises)

\* the names line 325 hands to _set_nodes_draining
ReDrainNames(closed_node_names, re_drain_node_names) == closed_node_names

\* _drain_and_stop_nodes, lines 323-325, and the end of the tick
ReDrainPhase ==
    LET d == IF close_result.re_drain # <<>>
             THEN SetNodes(table, removed_nodes,
                           ReDrainNames(close_result.closed, close_result.re_drain),
                           Draining, FALSE)
             ELSE [table |-> table, removed |-> removed_nodes]
    IN  /\ tick_pc = "redrain"
        /\ table' = d.table
        /\ removed_nodes' = d.removed
        /\ TickEnds
        /\ UNCHANGED <<idle_table, callbacks, schedVars, seen, table_lock, clock, heard, headNode, hb,
                       tickLogs, notified>>

-----------------------------------------------------------------------------

(* Spec: one host under two fqdns, every response and every failure of the head *)
(* node, callbacks that may raise; a heartbeat is one step.                      *)

FqdnInputs == { <<"a", ".", "x">>, <<"A", ".", "X">>, <<"a", ".", "y">> }

HeartbeatInputs == { <<"a">>, <<"A">> }

Ingress ==
    \/ SubscribeNodeClosedCallback
    \/ \E fqdn \in FqdnInputs, agent_id \in AgentIds, task_id \in TaskIds, cpus \in Cpus :
          AddNode(fqdn, agent_id, task_id, cpus, "default") /\ NotHeard
    \/ \E hostname \in HeartbeatInputs : OnSlaveHeartbeat(hostname, "default") /\ NotHeard

Reconciler ==
    \/ Start(TRUE, BOOLEAN)
    \/ TimerTick(TRUE, BOOLEAN)
    \/ TimeoutPhase(TRUE, BOOLEAN)
    \/ DrainPhase(TRUE, BOOLEAN)
    \/ ClosePhase(TRUE, BOOLEAN)
    \/ CallbackPhase(TRUE)
    \/ ReDrainPhase

Environment ==
    \/ Advance(MaxClock)
    \/ \E st \in HnStatuses \cup {Absent} : HnDrift(<<"A">>, st)

Next == Ingress \/ Reconciler \/ Environment

Spec == Init /\ [][Next]_vars

-----------------------------------------------------------------------------
(* SpecCoop: two hosts and a head node that answers every call and carries out *)
(* every action; nodes register with it and may come back online.              *)

CoopFqdns == { <<"a", ".", "x">>, <<"b", ".", "x">> }

CoopHeartbeats == { <<"a">>, <<"b">> }

Registered == [state |-> Offline, health |-> Unapproved, groups |-> {}]

\* a node registers with the head node
HnRegisters(k) == hn[k] = Absent /\ HnDrift(k, Registered)

\* an offline node comes back online
HnBackOnline(k) ==
    /\ hn[k] # Absent
    /\ hn[k].state = Offline
    /\ hn[k].health = OK
    /\ HnDrift(k, [hn[k] EXCEPT !.state = Online])

NextCoop ==
    \/ SubscribeNodeClosedCallback
    \/ \E fqdn \in CoopFqdns, agent_id \in AgentIds, task_id \in TaskIds, cpus \in Cpus :
          AddNode(fqdn, agent_id, task_id, cpus, "default") /\ NotHeard
    \/ \E hostname \in CoopHeartbeats : OnSlaveHeartbeat(hostname, "default") /\ NotHeard
    \/ Start(FALSE, {FALSE})
    \/ TimerTick(FALSE, {FALSE})
    \/ TimeoutPhase(FALSE, {FALSE})
    \/ DrainPhase(FALSE, {FALSE})
    \/ ClosePhase(FALSE, {FALSE})
    \/ CallbackPhase(FALSE)
    \/ ReDrainPhase
    \/ Advance(MaxClock)
    \/ \E k \in HostKeys : HnRegisters(k)
    \/ \E k \in HostKeys : HnBackOnline(k)

SpecCoop == Init /\ [][NextCoop]_vars

-----------------------------------------------------------------------------
(* SpecRace: one host; on_slave_heartbeat runs step by step beside the tick. *)

RaceFqdns == { <<"a", ".", "x">> }

RaceHeartbeats == { <<"a">> }

NextRace ==
    \/ \E fqdn \in RaceFqdns, agent_id \in AgentIds, task_id \in TaskIds, cpus \in Cpus :
          AddNode(fqdn, agent_id, task_id, cpus, "default") /\ NotHeard
    \/ \E hostname \in RaceHeartbeats, ts \in {"default", "clock"} :
          HbCall(hostname, ts) /\ NotHeard
    \/ HbStamp
    \/ HbRecheck
    \/ HbConfigure
    \/ Start(FALSE, {FALSE})
    \/ TimerTick(FALSE, {FALSE})
    \/ TimeoutPhase(FALSE, {FALSE})
    \/ DrainPhase(FALSE, {FALSE})
    \/ ClosePhase(FALSE, {FALSE})
    \/ ReDrainPhase
    \/ Advance(MaxClock)
    \/ HnRegisters(<<"A">>)
    \/ HnBackOnline(<<"A">>)

SpecRace == Init /\ [][NextRace]_vars

-----------------------------------------------------------------------------
(* SpecStart: one host; start() may be called again, each call starts a chain *)
(* of timers of its own.                                                       *)

NextStart ==
    \/ \E fqdn \in RaceFqdns, agent_id \in AgentIds, task_id \in TaskIds, cpus \in Cpus :
          AddNode(fqdn, agent_id, task_id, cpus, "default") /\ NotHeard
    \/ \E hostname \in RaceHeartbeats : OnSlaveHeartbeat(hostname, "default") /\ NotHeard
    \/ Start(FALSE, {FALSE})
    \/ StartAgain(FALSE, {FALSE})
    \/ TimerTick(FALSE, {FALSE})
    \/ ExtraTimerFires
    \/ EnteredTickRuns(FALSE, {FALSE})
    \/ TimeoutPhase(FALSE, {FALSE})
    \/ DrainPhase(FALSE, {FALSE})
    \/ ClosePhase(FALSE, {FALSE})
    \/ ReDrainPhase
    \/ Advance(MaxClock)
    \/ HnRegisters(<<"A">>)

SpecStart == Init /\ [][NextStart]_vars

-----------------------------------------------------------------------------
(* SpecIdem: one host, a head node that changes by the REST calls only, calls *)
(* that may raise; seen records each drain step.                              *)

NextIdem ==
    \/ \E fqdn \in RaceFqdns, agent_id \in AgentIds, task_id \in TaskIds, cpus \in Cpus :
          AddNode(fqdn, agent_id, task_id, cpus, "default") /\ NotHeard
    \/ \E hostname \in RaceHeartbeats : OnSlaveHeartbeat(hostname, "default") /\ NotHeard
    \/ Start(TRUE, {FALSE})
    \/ TimerTick(TRUE, {FALSE})
    \/ TimeoutPhase(TRUE, {FALSE})
    \/ DrainPhaseSeen(TRUE, {FALSE})
    \/ ClosePhase(TRUE, {FALSE})
    \/ ReDrainPhase
    \/ Advance(MaxClock)
    \/ HnRegisters(<<"A">>)

SpecIdem == Init /\ [][NextIdem]_vars

-----------------------------------------------------------------------------
(* SpecLive: one host and a head node that carries out every call; the head node *)
(* may lose the record of a node. Every step of a tick that can be taken is      *)
(* taken in the end: the timer fires and no call blocks.                         *)

\* the head node loses the record of a node: removed by hand, or its database reset
HnForgets(k) == hn[k] # Absent /\ HnDrift(k, Absent)

\* a node is added once
Admissible(fqdn) == GetHostnameFromFqdn(Upper(fqdn)) \notin DOMAIN table

Tick ==
    \/ Start(FALSE, {FALSE})
    \/ TimerTick(FALSE, {FALSE})
    \/ TimeoutPhase(FALSE, {FALSE})
    \/ DrainPhase(FALSE, {FALSE})
    \/ ClosePhase(FALSE, {FALSE})
    \/ CallbackPhase(FALSE)
    \/ ReDrainPhase

NextLive ==
    \/ tick_pc = "unstarted" /\ SubscribeNodeClosedCallback
    \/ \E fqdn \in RaceFqdns, agent_id \in AgentIds, task_id \in TaskIds, cpus \in Cpus :
          Admissible(fqdn) /\ AddNode(fqdn, agent_id, task_id, cpus, "default") /\ NotHeard
    \/ \E hostname \in RaceHeartbeats : OnSlaveHeartbeat(hostname, "default") /\ NotHeard
    \/ Tick
    \/ Advance(MaxClock)
    \/ HnRegisters(<<"A">>)
    \/ HnForgets(<<"A">>)

SpecLive == Init /\ [][NextLive]_vars /\ WF_vars(Tick)

-----------------------------------------------------------------------------
(* SpecTime: one host, calls without timestamps; heard records when they came. *)

NextTime ==
    \/ \E fqdn \in RaceFqdns, agent_id \in AgentIds, task_id \in TaskIds, cpus \in Cpus :
          AddNode(fqdn, agent_id, task_id, cpus, "default") /\ Heard(GetHostnameFromFqdn(fqdn))
    \/ \E hostname \in RaceHeartbeats :
          OnSlaveHeartbeat(hostname, "default") /\ Heard(hostname)
    \/ Start(FALSE, {FALSE})
    \/ TimerTick(FALSE, {FALSE})
    \/ TimeoutPhase(FALSE, {FALSE})
    \/ DrainPhase(FALSE, {FALSE})
    \/ ClosePhase(FALSE, {FALSE})
    \/ ReDrainPhase
    \/ Advance(MaxTime)
    \/ HnRegisters(<<"A">>)

SpecTime == Init /\ [][NextTime]_vars

-----------------------------------------------------------------------------
(* Claims *)

\* a step of add_slaveinfo that put a fresh record under k
FreshlyAdded(k) ==
    /\ k \in DOMAIN table'
    /\ table'[k].state = Provisioning
    /\ (k \notin DOMAIN table \/ table[k].state # Provisioning)

\* C1: Closed is terminal: a record that is Closed stays Closed in every step of the
\* reconciler and of a heartbeat; only a fresh add_node for the hostname replaces it.
C1_ClosedIsTerminal ==
    [][\A k \in DOMAIN table :
          table[k].state = Closed => (table'[k].state = Closed \/ FreshlyAdded(k))]_vars

\* the callback invoked by this step, with the names it was given
Invoked == cb_log'[Len(cb_log')]

\* C2: between two add_node calls for a hostname, no callback is invoked twice with a
\* list that contains the hostname.
C2_NotifiedAtMostOnce ==
    [][Len(cb_log') = Len(cb_log) + 1 =>
          \A k \in HostKeys : k \in Range(Invoked.names) => Invoked.cb \notin notified[k]]_vars

\* C3: when the dispatch of a closed batch ends, every registered callback has been
\* invoked exactly once, with exactly the names set to Closed in this tick, and the
\* records of those names were Closed when it was invoked.
C3_EveryCallbackOnceWithBatch ==
    [][(tick_pc = "callbacks" /\ tick_pc' # "callbacks") =>
          \A i \in 1..Len(callbacks) :
              LET hits == {j \in 1..Len(cb_log') : cb_log'[j].cb = callbacks[i]}
              IN  /\ Cardinality(hits) = 1
                  /\ \A j \in hits :
                        /\ cb_log'[j].names = closed_batch
                        /\ \A n \in 1..Len(cb_log'[j].states) :
                              cb_log'[j].states[n] = Closed]_vars

\* a step of on_slave_heartbeat
HeartbeatStep == hb' # hb

\* C4: a step of on_slave_heartbeat changes no state but Provisioning to Configuring,
\* whatever the reconciler did since the heartbeat began.
C4_HeartbeatOnlyConfigures ==
    [][HeartbeatStep =>
          \A k \in DOMAIN table :
              \/ table'[k].state = table[k].state
              \/ (table[k].state = Provisioning /\ table'[k].state = Configuring)]_vars

\* the prefix of a name before its first "."
HostPrefix(u) ==
    LET n == CHOOSE n \in 0..Len(u) :
                 /\ \A i \in 1..n : u[i] # "."
                 /\ (n = Len(u) \/ u[n + 1] = ".")
    IN  SubSeq(u, 1, n)

\* the fqdns add_slaveinfo and check_fqdn_collision are asked about
ProbeFqdns == FqdnInputs \cup { <<"b">>, <<"A", ".", "y">> }

Collides(fqdn) ==
    /\ HostPrefix(Upper(fqdn)) \in DOMAIN table
    /\ table[HostPrefix(Upper(fqdn))].fqdn # Upper(fqdn)

\* C5: check_fqdn_collision(fqdn) is true exactly when the table holds a record under
\* the uppercased prefix of fqdn before the first "." whose fqdn differs from the
\* uppercased fqdn; add_slaveinfo leaves the table as it is in exactly those states,
\* and no step changes the fqdn of a record.
C5_FqdnCollision ==
    /\ [](\A fqdn \in ProbeFqdns :
            LET added == AddSlaveinfo(table, fqdn, "a1", "t1", 8, clock)
            IN  /\ CheckFqdnCollision(table, fqdn) <=> Collides(fqdn)
                /\ Collides(fqdn) => added = table
                /\ ~Collides(fqdn) =>
                      /\ HostPrefix(Upper(fqdn)) \in DOMAIN added
                      /\ added[HostPrefix(Upper(fqdn))].fqdn = Upper(fqdn)
                      /\ added[HostPrefix(Upper(fqdn))].state = Provisioning)
    /\ [][\A k \in DOMAIN table : table'[k].fqdn = table[k].fqdn]_vars

\* C5, the case: host A is Configuring under a.x; a.y collides, a.x does not
C5_Witness ==
    /\ <<"A">> \in DOMAIN table
    /\ table[<<"A">>].state = Configuring
    /\ CheckFqdnCollision(table, <<"a", ".", "y">>)
    /\ ~CheckFqdnCollision(table, <<"a", ".", "x">>)

\* C6 as claimed: a record becomes a fresh Provisioning record only from Closed; in
\* any other state add_node leaves the state as it is.
C6_ReadmissionOnlyFromClosed ==
    [][\A k \in DOMAIN table :
          (table'[k].state = Provisioning /\ table[k].state # Provisioning)
              => table[k].state = Closed]_vars

\* C6 as amended: add_slaveinfo for a hostname present with the same fqdn puts a
\* fresh Provisioning record in its place whatever the state of the record.
C6_AddReplacesInAnyState ==
    \A fqdn \in FqdnInputs :
        LET hostname == GetHostnameFromFqdn(Upper(fqdn))
        IN  (hostname \in DOMAIN table /\ table[hostname].fqdn = Upper(fqdn)) =>
                AddSlaveinfo(table, fqdn, "a2", "t2", 4, clock)[hostname]
                    = SlaveInfo(hostname, Upper(fqdn), "a2", "t2", 4, clock, Provisioning)

\* C6, the case: the record the tick saw as Closing has been replaced during the tick
C6_Witness ==
    /\ tick_pc = "close"
    /\ <<"A">> \in Range(to_close)
    /\ table[<<"A">>].state = Provisioning

\* the timeout phase of a tick that goes on
TimeoutStep == tick_pc = "timeout" /\ tick_pc' = "drain"

\* C7: a Provisioning record not heard of for provisioning_timeout, and a Running
\* record not heard of for heartbeat_timeout, is Draining after the timeout phase of
\* the next tick.
C7_TimeoutsDrain ==
    [][TimeoutStep =>
          \A k \in DOMAIN table :
              (\/ (table[k].state = Provisioning /\ clock - heard[k] >= ProvisioningTimeout)
               \/ (table[k].state = Running /\ clock - heard[k] >= HeartbeatTimeout))
                  => table'[k].state = Draining]_vars

\* the configure phase, the drain step, the close step and the end of a tick
ConfigureAct == tick_pc \in {"unstarted", "idle"} /\ tick_pc' = "timeout"

DrainAct == tick_pc = "drain" /\ tick_pc' = "close"

CloseAct == tick_pc = "close" /\ tick_pc' \in {"callbacks", "redrain"}

EndAct == tick_pc = "redrain" /\ tick_pc' = "idle"

\* the REST calls of this tick so far that name k
CallsFor(log, k) == SelectSeq(log, LAMBDA e : k \in Range(UpperStrings(e.names)))

\* the calls this step issued
NewCalls == SubSeq(rest_log', Len(rest_log) + 1, Len(rest_log'))

InMesos(st) == MESOS_NODE_GROUP_NAME \in st.groups

\* C8: in the configure phase of a tick, for a Configuring node the head node knows:
\* unapproved: the one call for it is assign-default-template, it stays Configuring
\* and the head node has it approved and offline; approved, offline, not in the Mesos
\* group: the one call is add-to-Mesos-group, it stays Configuring; offline in the
\* Mesos group: the one call is bring-online, it stays Configuring; online in the
\* Mesos group: no call, and it is Running.
C8_HappyPath ==
    [][ConfigureAct =>
          \A k \in DOMAIN table :
              (table[k].state = Configuring /\ hn[k] # Absent) =>
                  LET mine == CallsFor(rest_log', k)
                  IN  /\ hn[k].health = Unapproved =>
                            /\ Len(mine) = 1
                            /\ mine[1].op = "assign_default_compute_node_template"
                            /\ table'[k].state = Configuring
                            /\ hn'[k] = [hn[k] EXCEPT !.health = OK, !.state = Offline]
                      /\ (hn[k].health = OK /\ hn[k].state = Offline /\ ~InMesos(hn[k])) =>
                            /\ Len(mine) = 1
                            /\ mine[1].op = "add_node_to_node_group"
                            /\ mine[1].group = MESOS_NODE_GROUP_NAME
                            /\ table'[k].state = Configuring
                            /\ hn'[k] = [hn[k] EXCEPT !.groups = {MESOS_NODE_GROUP_NAME}]
                      /\ (hn[k].health = OK /\ hn[k].state = Offline /\ InMesos(hn[k])) =>
                            /\ Len(mine) = 1
                            /\ mine[1].op = "bring_nodes_online"
                            /\ table'[k].state = Configuring
                            /\ hn'[k] = [hn[k] EXCEPT !.state = Online]
                      /\ (hn[k].health = OK /\ hn[k].state = Online /\ InMesos(hn[k])) =>
                            /\ mine = <<>>
                            /\ table'[k].state = Running
                            /\ hn'[k] = hn[k]]_vars

\* C8, the case: the tick that found A online in the Mesos group has made it Running
\* and issued no call for it
C8_Witness ==
    /\ tick_pc = "timeout"
    /\ <<"A">> \in DOMAIN table
    /\ table[<<"A">>].state = Running
    /\ hn[<<"A">>] = [state |-> Online, health |-> OK, groups |-> {MESOS_NODE_GROUP_NAME}]
    /\ CallsFor(rest_log, <<"A">>) = <<>>

\* C9: a Draining node the head node has online is taken offline by the drain step; a
\* Draining node it has offline is set Closing; a Closing node it has approved and
\* offline is removed by the close step; a Closing node it no longer has is set
\* Closed, every callback is invoked with a list that names it, and it is Closed when
\* the tick ends.
C9_DrainToClose ==
    [][\A k \in DOMAIN table :
          /\ (DrainAct /\ table[k].state = Draining /\ hn[k] # Absent /\ hn[k].state = Online) =>
                /\ \E i \in 1..Len(NewCalls) : /\ NewCalls[i].op = "take_nodes_offline"
                                              /\ k \in Range(UpperStrings(NewCalls[i].names))
                /\ hn'[k].state = Offline
                /\ table'[k].state = Draining
          /\ (DrainAct /\ table[k].state = Draining /\ hn[k] # Absent /\ hn[k].state = Offline) =>
                table'[k].state = Closing
          /\ (CloseAct /\ k \in Range(to_close) /\ table[k].state = Closing
                /\ hn[k] # Absent /\ hn[k].health = OK /\ hn[k].state = Offline) =>
                /\ \E i \in 1..Len(NewCalls) : /\ NewCalls[i].op = "remove_nodes"
                                              /\ k \in Range(UpperStrings(NewCalls[i].names))
                /\ hn'[k] = Absent
          /\ (CloseAct /\ k \in Range(to_close) /\ table[k].state = Closing /\ hn[k] = Absent) =>
                /\ table'[k].state = Closed
                /\ k \in Range(closed_batch')
          /\ (tick_pc = "callbacks" /\ tick_pc' = "redrain" /\ k \in Range(closed_batch)) =>
                \A i \in 1..Len(callbacks) :
                    \E j \in 1..Len(cb_log') : /\ cb_log'[j].cb = callbacks[i]
                                               /\ k \in Range(cb_log'[j].names)
          /\ (EndAct /\ k \in Range(closed_batch) /\ table[k].state = Closed) =>
                table'[k].state = Closed]_vars

\* C10: a Closing node the close step finds approved and not offline is returned in
\* re_drain, and it is Draining when that tick ends.
C10_ReDrain ==
    [][\A k \in DOMAIN table :
          /\ (CloseAct /\ k \in Range(to_close) /\ table[k].state = Closing
                /\ hn[k] # Absent /\ hn[k].health = OK /\ hn[k].state # Offline) =>
                k \in Range(UpperStrings(close_result'.re_drain))
          /\ (EndAct /\ k \in Range(UpperStrings(close_result.re_drain))
                /\ table[k].state = Closing) =>
                table'[k].state = Draining]_vars

\* C11: a node that is not Running in the timeout phase of a tick is not reported idle
\* in that tick, so the tick leaves no idle observation of it that a later idle report
\* would continue: it is not in the idle table, or it is in the removed set, which
\* makes the next idle report start a new span.
C11_InterruptionDiscards ==
    [][TimeoutStep =>
          \A k \in HostKeys :
              (k \notin DOMAIN table \/ table[k].state # Running) =>
                  (k \notin DOMAIN idle_table' \/ k \in removed_nodes')]_vars

\* C12: a callback that raises does not end the tick: the dispatch goes on with the
\* next callback, and when it ends every registered callback has been invoked.
C12_CallbackIsolation ==
    [][tick_pc = "callbacks" =>
          /\ tick_pc' \in {"callbacks", "redrain"}
          /\ tick_pc' = "redrain" =>
                \A i \in 1..Len(callbacks) :
                    \E j \in 1..Len(cb_log') : cb_log'[j].cb = callbacks[i]]_vars

\* C13: no phase of a tick that makes REST calls ends the reconciler.
C13_NoRestFailureIsFatal ==
    [][(tick_pc \in {"unstarted", "idle", "timeout", "drain", "close", "redrain"}) =>
          ~(tick_pc' = "dead")]_vars

\* the edges of the lifecycle graph
LifecycleEdges ==
    { <<Provisioning, Configuring>>, <<Configuring, Running>>,
      <<Provisioning, Draining>>, <<Configuring, Draining>>, <<Running, Draining>>,
      <<Draining, Closing>>, <<Closing, Closed>>, <<Closing, Draining>> }

\* C17: every change of the state of a record that is not the fresh record add_node
\* puts in its place follows an edge of the lifecycle graph.
C17_LifecycleConformance ==
    [][\A k \in DOMAIN table :
          \/ table'[k].state = table[k].state
          \/ FreshlyAdded(k)
          \/ <<table[k].state, table'[k].state>> \in LifecycleEdges]_vars

\* a Running record whose last heartbeat is exactly heartbeat_timeout old
AtHeartbeatBoundary(k) ==
    /\ k \in DOMAIN table
    /\ table[k].state = Running
    /\ clock - table[k].last_heartbeat = HeartbeatTimeout

\* C19 as claimed: at now - last_heartbeat = heartbeat_timeout check_timeout puts a
\* Running record in running_list, not in heartbeat_timeout_list.
C19_BoundaryIsNotALoss ==
    \A k \in HostKeys :
        AtHeartbeatBoundary(k) =>
            /\ k \in Range(CheckTimeout(table, clock).running)
            /\ k \notin Range(CheckTimeout(table, clock).heartbeat_timeout)

\* C19 as amended: at now - last_heartbeat = heartbeat_timeout check_timeout puts a
\* Running record in heartbeat_timeout_list and not in running_list; below
\* heartbeat_timeout it puts it in running_list.
C19_BoundaryIsALoss ==
    \A k \in HostKeys :
        /\ AtHeartbeatBoundary(k) =>
              /\ k \in Range(CheckTimeout(table, clock).heartbeat_timeout)
              /\ k \notin Range(CheckTimeout(table, clock).running)
        /\ (k \in DOMAIN table /\ table[k].state = Running
              /\ clock - table[k].last_heartbeat < HeartbeatTimeout) =>
              /\ k \in Range(CheckTimeout(table, clock).running)
              /\ k \notin Range(CheckTimeout(table, clock).heartbeat_timeout)

\* C19, the case: A is Running and its last heartbeat is exactly heartbeat_timeout old
C19_Witness == AtHeartbeatBoundary(<<"A">>)

\* C20: every record that is Draining, Closing or Closed has its hostname in the
\* removed set; a hostname leaves the removed set only in the timeout phase of a
\* tick, for a Running node with an idle observation, and that step sets its idle
\* timestamp to now.
C20_RemovedSet ==
    /\ [](\A k \in DOMAIN table :
            table[k].state \in {Draining, Closing, Closed} => k \in removed_nodes)
    /\ [][\A k \in removed_nodes :
            k \notin removed_nodes' =>
                /\ tick_pc = "timeout"
                /\ k \in DOMAIN table /\ table[k].state = Running
                /\ k \in DOMAIN idle_table
                /\ k \in DOMAIN idle_table' /\ idle_table'[k] = clock]_vars

\* C20, the case: a tick has ended, A is Closed and in the removed set
C20_Witness ==
    /\ tick_pc = "idle"
    /\ <<"A">> \in DOMAIN table
    /\ table[<<"A">>].state = Closed
    /\ <<"A">> \in removed_nodes

\* a target node group, and groups a status may list beside those the head node has
TargetGroup == <<"G", "p">>

ExtraGroups == SUBSET { <<"m", "e", "s", "o", "s">>, <<"g", "P">> }

\* the status of k with more groups listed
StatusWith(k, more) ==
    [NodeName |-> k, NodeState |-> hn[k].state, NodeHealth |-> hn[k].health,
     NodeGroup |-> hn[k].groups \cup more]

\* gs lists group g, whatever the letter case
Lists(gs, g) == \E x \in gs : Upper(x) = Upper(g)

CallOps(calls) == {calls[i].op : i \in 1..Len(calls)}

CallGroups(calls) == {calls[i].group : i \in 1..Len(calls)}

\* C15: when a tick is about to run, for every status the head node may return and
\* every target group, the configure machine returns the
\* name as configured exactly when the target group, if one is specified, exists and
\* the status is approved, lists the Mesos group and the target group in any letter
\* case and is online; with the target group missing it returns nothing and issues
\* no call; every other status gets the one action of its bucket, or none when its
\* state is invalid; and the tick sets a Configuring record Running exactly when its
\* name is returned.
C15_ConfigureMachineOutput ==
    /\ [](\A k \in HostKeys, more \in ExtraGroups, node_group \in {<<>>, TargetGroup},
            target_missing \in BOOLEAN :
            (tick_pc \in {"unstarted", "idle"} /\ hn[k] # Absent) =>
                LET st == StatusWith(k, more)
                    m == ConfigureComputeNodesStateMachine(<<st>>, node_group, target_missing)
                    present == node_group = <<>> \/ ~target_missing
                    approved == st.NodeHealth # Unapproved
                    grouped == /\ Lists(st.NodeGroup, MESOS_NODE_GROUP_NAME)
                               /\ (node_group = <<>> \/ Lists(st.NodeGroup, node_group))
                    fit == approved /\ grouped /\ st.NodeState = Online
                IN  /\ k \in Range(m.configured) <=> (present /\ fit)
                    /\ ~present => (m.configured = <<>> /\ m.calls = <<>>)
                    /\ (present /\ ~approved) =>
                          CallOps(m.calls) = {"assign_default_compute_node_template"}
                    /\ (present /\ approved /\ ~grouped /\ st.NodeState = Online) =>
                          CallOps(m.calls) = {"take_nodes_offline"}
                    /\ (present /\ approved /\ ~grouped /\ st.NodeState = Offline) =>
                          /\ CallOps(m.calls) = {"add_node_to_node_group"}
                          /\ CallGroups(m.calls) =
                                {MESOS_NODE_GROUP_NAME} \cup
                                (IF node_group = <<>> THEN {} ELSE {node_group})
                    /\ (present /\ approved /\ grouped /\ st.NodeState = Offline) =>
                          CallOps(m.calls) = {"bring_nodes_online"}
                    /\ (present /\ approved /\ st.NodeState \notin {Online, Offline}) =>
                          m.calls = <<>>
                    /\ (present /\ fit) => m.calls = <<>>)
    /\ [][ConfigureAct =>
            \A k \in DOMAIN table :
                table[k].state = Configuring =>
                    (table'[k].state = Running <=>
                        /\ hn[k] # Absent
                        /\ hn[k].health # Unapproved
                        /\ Lists(hn[k].groups, MESOS_NODE_GROUP_NAME)
                        /\ hn[k].state = Online)]_vars

\* C15, the case: the configure phase found A approved, online and in the Mesos group
\* and has set it Running
C15_Witness ==
    /\ tick_pc = "timeout"
    /\ <<"A">> \in DOMAIN table
    /\ table[<<"A">>].state = Running
    /\ hn[<<"A">>] # Absent
    /\ hn[<<"A">>].health = OK
    /\ hn[<<"A">>].state = Online
    /\ Lists(hn[<<"A">>].groups, MESOS_NODE_GROUP_NAME)
    /\ mesos_group

\* the head node has the node named approved and offline
ApprovedOffline(name) ==
    /\ hn[Upper(name)] # Absent
    /\ hn[Upper(name)].health = OK
    /\ hn[Upper(name)].state = Offline

\* the head node returns the status of the node under the spelling of name
SameSpelling(name) == name = Upper(name)

\* C16 as claimed: every name of the close batch whose status is approved and offline
\* is in the closed list of that call of the close machine.
C16_RemovedAreReportedClosed ==
    tick_pc = "close" =>
        LET m == CloseNodeStateMachine(to_close, GetNodeStatusExact(hn, to_close, FALSE))
        IN  \A i \in 1..Len(to_close) :
                ApprovedOffline(to_close[i]) => to_close[i] \in Range(m.closed)

\* C16 as amended: a name of the close batch whose status, returned under the same
\* spelling, is approved and offline is named in remove_nodes and is neither in closed
\* nor in re_drain of that call; a name with no status returned is in closed.
C16_RemovedAreNotReportedClosed ==
    tick_pc = "close" =>
        LET m == CloseNodeStateMachine(to_close, GetNodeStatusExact(hn, to_close, FALSE))
        IN  \A i \in 1..Len(to_close) :
                /\ (ApprovedOffline(to_close[i]) /\ SameSpelling(to_close[i])) =>
                      /\ to_close[i] \notin Range(m.closed)
                      /\ to_close[i] \notin Range(m.re_drain)
                      /\ \E j \in 1..Len(m.calls) : /\ m.calls[j].op = "remove_nodes"
                                                    /\ to_close[i] \in Range(m.calls[j].names)
                /\ hn[Upper(to_close[i])] = Absent => to_close[i] \in Range(m.closed)

\* C16, the case: the close step has issued remove_nodes for A and closed nothing
C16_Witness ==
    /\ tick_pc = "redrain"
    /\ close_result.closed = <<>>
    /\ \E j \in 1..Len(rest_log) : /\ rest_log[j].op = "remove_nodes"
                                   /\ <<"A">> \in Range(rest_log[j].names)
    /\ <<"A">> \in DOMAIN table
    /\ table[<<"A">>].state = Closing

\* C14: ticks are serial, also when start() is called more than once: at most one
\* tick is executing at any time, and while a tick is executing no timer for a next
\* tick is pending.
C14_TicksAreSerial ==
    /\ Executing <= 1
    /\ Executing = 1 => Timers = 0

\* a Draining node of the last drain step that the head node reported online
DrainingOnline ==
    \E k \in DOMAIN seen.table :
        seen.table[k].state = Draining /\ seen.hn[k] # Absent /\ seen.hn[k].state = Online

Approved(name) ==
    /\ hn[Upper(name)] # Absent
    /\ hn[Upper(name)].health # Unapproved

\* C21: in the close step a name of the close batch whose status the head node
\* returns as approved, in whatever letter case, is not in the closed list of that
\* step: it is classified by its status only, never as missing from the statuses.
C21_ApprovedNeverMissing ==
    [][CloseAct =>
        \A i \in 1..Len(to_close) :
            Approved(to_close[i]) =>
                Upper(to_close[i]) \notin Range(UpperStrings(close_result'.closed))]_vars

\* node A is tracked in the state st
TrackedAs(st) == <<"A">> \in DOMAIN table /\ table[<<"A">>].state = st

\* node A is Closed and every subscribed callback has been called with it
ClosedAndReported ==
    /\ TrackedAs(Closed)
    /\ notified[<<"A">>] = 1..Len(callbacks)

\* C22: under fair ticks a node that is Draining is Closed in the end, and the
\* node_closed callbacks have been called with it, whether or not the head node has a
\* record of it.
C22_DrainingReachesClosed == TrackedAs(Draining) ~> ClosedAndReported

====
